---- MODULE Spec2Model ----
(***************************************************************************)
(* Rate Limit Filter (examples/filters/rate_limit_filter_pipeline.py).     *)
(*                                                                         *)
(* Pipeline.inlet is modelled as one step per call: the role test, the     *)
(* exemption test, the weekday test, rate_limited (prune_requests and the  *)
(* three counts) and log_request.  The clock time.time() is the variable   *)
(* now, in whole seconds; a call reads one clock value (it completes       *)
(* inside one clock reading), and Tick moves the clock between calls.      *)
(* Strings are sequences of one-character strings, an Optional value is    *)
(* the empty set (None) or a singleton set.                                *)
(***************************************************************************)
EXTENDS Integers, Sequences, FiniteSets, TLC

VARIABLES
    valves,         \* self.valves
    user_requests,  \* self.user_requests: user_id -> list of timestamps
    now,            \* time.time()
    localStart,     \* local calendar position of clock reading 0 (seconds since Monday 00:00)
    callers,        \* the identity records that call this deployment
    caller,         \* the user argument of the last inlet call that ended
    outcome,        \* how that call ended
    threads         \* the inlet calls in progress on parallel threads: position and locals

vars == <<valves, user_requests, now, localStart, callers, caller, outcome, threads>>

(***************************************************************************)
(* Bounds of the model                                                     *)
(***************************************************************************)
MaxLimit == 2       \* largest configured threshold
MaxSlots == 4       \* half-minute clock readings after clock reading 0
HourSlots == 1      \* half-minute clock readings after the first hour

(***************************************************************************)
(* Optional values and strings                                             *)
(***************************************************************************)
None == {}
Some(x) == {x}
Val(o) == CHOOSE x \in o : TRUE

Whitespace == {" "}

LowerChar(c) ==
    CASE c = "A" -> "a"
      [] c = "B" -> "b"
      [] c = "L" -> "l"
      [] c = "U" -> "u"
      [] c = "X" -> "x"
      [] OTHER -> c

\* str.lower()
Lower(s) == [i \in 1..Len(s) |-> LowerChar(s[i])]

RECURSIVE StripLeft(_)
StripLeft(s) ==
    IF s = <<>> THEN s
    ELSE IF Head(s) \in Whitespace THEN StripLeft(Tail(s)) ELSE s

RECURSIVE StripRight(_)
StripRight(s) ==
    IF s = <<>> THEN s
    ELSE IF s[Len(s)] \in Whitespace THEN StripRight(SubSeq(s, 1, Len(s) - 1)) ELSE s

\* str.strip()
Strip(s) == StripRight(StripLeft(s))

\* x in list
InList(x, l) == \E i \in 1..Len(l) : l[i] = x

\* (d.get(field) or "")
OrEmpty(o) == IF o = None THEN <<>> ELSE Val(o)

(***************************************************************************)
(* Configuration: Valves (lines 10-36) as built by __init__ (lines 51-82)  *)
(***************************************************************************)
\* Optional[int] thresholds the model draws from
Thresholds == {None, Some(1), Some(MaxLimit)}
\* Optional[int] sliding_window_minutes
WindowMinutes == {None, Some(1), Some(2)}

\* RATE_LIMIT_EXEMPT_USERNAMES / _EMAILS / _USER_IDS, split at ","
EnvExemptUsernames == << <<" ", "A", "L">>, <<" ">> >>
EnvExemptEmails == << <<"B", "@", "x", " ">> >>
EnvExemptUserIds == << <<>>, <<" ", "u", "9">> >>

\* if name.strip()
NonBlank(name) == Strip(name) # <<>>

\* [name.strip().lower() for name in raw if name.strip()]
ExemptNames(raw) ==
    LET kept == SelectSeq(raw, NonBlank) IN [i \in 1..Len(kept) |-> Lower(Strip(kept[i]))]

\* [uid.strip() for uid in raw if uid.strip()]
ExemptIds(raw) ==
    LET kept == SelectSeq(raw, NonBlank) IN [i \in 1..Len(kept) |-> Strip(kept[i])]

MakeValves(rpm, rph, swl, swm, wd) ==
    [ requests_per_minute    |-> rpm,
      requests_per_hour      |-> rph,
      sliding_window_limit   |-> swl,
      sliding_window_minutes |-> swm,
      exempt_usernames       |-> ExemptNames(EnvExemptUsernames),
      exempt_emails          |-> ExemptNames(EnvExemptEmails),
      exempt_user_ids        |-> ExemptIds(EnvExemptUserIds),
      weekdays_only          |-> wd ]

(***************************************************************************)
(* Identity records: the user argument of inlet (None or a dict)           *)
(***************************************************************************)
MakeUser(username, email, id, role) ==
    Some([username |-> username, email |-> email, id |-> id, role |-> role])

Dan == MakeUser(Some(<<"d", "a", "n">>), None, Some(<<"u", "1">>), Some("user"))
Eve == MakeUser(None, None, None, Some("user"))
Ned == MakeUser(Some(<<"n", "e", "d">>), Some(<<"n", "@", "x">>), None, Some("user"))
Al == MakeUser(Some(<<"A", "l", " ">>), None, Some(<<"u", "2">>), Some("user"))
Bea == MakeUser(None, Some(<<" ", "b", "@", "X">>), Some(<<"u", "3">>), Some("user"))
Uma == MakeUser(Some(<<"u", "m", "a">>), None, Some(<<"u", "9">>), Some("user"))
Ida == MakeUser(None, None, Some(<<" ", "u", "9">>), Some("user"))
Root == MakeUser(Some(<<"d", "a", "n">>), None, Some(<<"u", "1">>), Some("admin"))
NoRole == MakeUser(None, None, Some(<<"u", "1">>), None)
NoUser == None

Users == {Dan, Eve, Ned, Al, Bea, Uma, Ida, Root, NoRole, NoUser}

DefaultUser == <<"d", "e", "f", "a", "u", "l", "t", "_", "u", "s", "e", "r">>

(***************************************************************************)
(* The clock                                                               *)
(***************************************************************************)
\* clock readings at which calls are made: half-minute slots after 0 and after 1 h
Instants == {s * 30 : s \in 0..MaxSlots} \cup {3600 + s * 30 : s \in 0..HourSlots}

SecondsPerDay == 86400

\* Wednesday 00:00; Friday 90 s and Sunday 60 s before local midnight
Wednesday == 2 * SecondsPerDay
LateFriday == 5 * SecondsPerDay - 90
LateSunday == 7 * SecondsPerDay - 60
LocalStarts == {LateFriday, LateSunday}

\* datetime.now().weekday(): Monday = 0 ... Sunday = 6
Weekday(t) == ((localStart + t) \div SecondsPerDay) % 7

\* mutant: Saturday taken as a weekday
is_weekday_WithSaturday == Weekday(now) < 6

\* is_weekday
is_weekday == Weekday(now) < 5

(***************************************************************************)
(* prune_requests, log_request, rate_limited (lines 97-142)                *)
(***************************************************************************)
\* mutant: the per-minute and per-hour tests of the filter without "is not None"
MinuteOrHourKeeps_IgnoresNone(v, t, req) == t - req < 60 \/ t - req < 3600

\* the first two disjuncts of the filter of prune_requests (lines 105-106)
MinuteOrHourKeeps(v, t, req) ==
    \/ v.requests_per_minute # None /\ t - req < 60
    \/ v.requests_per_hour # None /\ t - req < 3600

\* line 109 multiplies sliding_window_minutes by 60: with the limit set and the
\* minutes None this raises TypeError for the first entry that reaches it
PruneRaises(v, t, reqs) ==
    /\ v.sliding_window_limit # None
    /\ v.sliding_window_minutes = None
    /\ \E i \in 1..Len(reqs) : ~MinuteOrHourKeeps(v, t, reqs[i])

\* mutant: the sliding-window test of the filter written with <=
Keeps_WindowInclusive(v, t, req) ==
    \/ MinuteOrHourKeeps(v, t, req)
    \/ /\ v.sliding_window_limit # None
       /\ v.sliding_window_minutes # None
       /\ t - req <= Val(v.sliding_window_minutes) * 60

\* the filter of the list comprehension (lines 104-111)
Keeps(v, t, req) ==
    \/ MinuteOrHourKeeps(v, t, req)
    \/ /\ v.sliding_window_limit # None
       /\ v.sliding_window_minutes # None
       /\ t - req < Val(v.sliding_window_minutes) * 60

\* mutant: only the oldest entry is tested and dropped ("if" for a loop)
PrunedList_PopsOne(v, t, reqs) ==
    IF reqs # <<>> /\ ~Keeps(v, t, reqs[1]) THEN Tail(reqs) ELSE reqs

\* the rebuilt list of one user (lines 101-112)
PrunedList(v, t, reqs) == SelectSeq(reqs, LAMBDA req : Keeps(v, t, req))

\* mutant: prune_requests rebuilding the list of every user
prune_requests_AllUsers(v, t, ur, user_id) ==
    [k \in DOMAIN ur |-> PrunedList(v, t, ur[k])]

\* prune_requests: the dict after the call
prune_requests(v, t, ur, user_id) ==
    IF user_id \in DOMAIN ur
    THEN [ur EXCEPT ![user_id] = PrunedList(v, t, ur[user_id])]
    ELSE ur

\* mutant: log_request inserting at the front of the list
log_request_Prepend(t, ur, user_id) ==
    [k \in DOMAIN ur \cup {user_id} |->
        IF k = user_id
        THEN <<t>> \o (IF user_id \in DOMAIN ur THEN ur[user_id] ELSE <<>>)
        ELSE ur[k]]

\* log_request: the dict after the call
log_request(t, ur, user_id) ==
    [k \in DOMAIN ur \cup {user_id} |->
        IF k = user_id
        THEN (IF user_id \in DOMAIN ur THEN ur[user_id] ELSE <<>>) \o <<t>>
        ELSE ur[k]]

\* sum(1 for req in user_reqs if time.time() - req < window)
CountWithin(t, reqs, window) == Cardinality({i \in 1..Len(reqs) : t - reqs[i] < window})

\* self.user_requests.get(user_id, [])
GetReqs(ur, user_id) == IF user_id \in DOMAIN ur THEN ur[user_id] ELSE <<>>

\* mutant: the per-minute test written with >
MinuteLimited_OffByOne(v, t, reqs) ==
    /\ v.requests_per_minute # None
    /\ CountWithin(t, reqs, 60) > Val(v.requests_per_minute)

MinuteLimited(v, t, reqs) ==
    /\ v.requests_per_minute # None
    /\ CountWithin(t, reqs, 60) >= Val(v.requests_per_minute)

\* mutant: an absent per-hour threshold taken as a limit of 1
HourLimited_NoneAsOne(v, t, reqs) ==
    CountWithin(t, reqs, 3600) >=
        (IF v.requests_per_hour = None THEN 1 ELSE Val(v.requests_per_hour))

HourLimited(v, t, reqs) ==
    /\ v.requests_per_hour # None
    /\ CountWithin(t, reqs, 3600) >= Val(v.requests_per_hour)

SlidingLimited(v, reqs) ==
    /\ v.sliding_window_limit # None
    /\ Len(reqs) >= Val(v.sliding_window_limit)

\* the three tests of rate_limited on the pruned list (lines 125-142)
Limited(v, t, reqs) ==
    \/ MinuteLimited(v, t, reqs)
    \/ HourLimited(v, t, reqs)
    \/ SlidingLimited(v, reqs)

(***************************************************************************)
(* is_exempt (lines 148-166)                                               *)
(***************************************************************************)
\* mutant: the username and the email compared without lower()
is_exempt_CaseSensitive(v, user) ==
    IF user = None THEN FALSE
    ELSE LET d == Val(user) IN
        \/ /\ v.exempt_usernames # <<>>
           /\ InList(Strip(OrEmpty(d.username)), v.exempt_usernames)
        \/ /\ v.exempt_emails # <<>>
           /\ InList(Strip(OrEmpty(d.email)), v.exempt_emails)
        \/ /\ v.exempt_user_ids # <<>>
           /\ d.id # None
           /\ InList(Strip(Val(d.id)), v.exempt_user_ids)

\* mutant: the id compared without strip()
is_exempt_IdNotStripped(v, user) ==
    IF user = None THEN FALSE
    ELSE LET d == Val(user) IN
        \/ /\ v.exempt_usernames # <<>>
           /\ InList(Lower(Strip(OrEmpty(d.username))), v.exempt_usernames)
        \/ /\ v.exempt_emails # <<>>
           /\ InList(Lower(Strip(OrEmpty(d.email))), v.exempt_emails)
        \/ /\ v.exempt_user_ids # <<>>
           /\ d.id # None
           /\ InList(Val(d.id), v.exempt_user_ids)

is_exempt(v, user) ==
    IF user = None THEN FALSE
    ELSE LET d == Val(user) IN
        \/ /\ v.exempt_usernames # <<>>
           /\ InList(Lower(Strip(OrEmpty(d.username))), v.exempt_usernames)
        \/ /\ v.exempt_emails # <<>>
           /\ InList(Lower(Strip(OrEmpty(d.email))), v.exempt_emails)
        \/ /\ v.exempt_user_ids # <<>>
           /\ d.id # None
           /\ InList(Strip(Val(d.id)), v.exempt_user_ids)

(***************************************************************************)
(* inlet (lines 168-181)                                                   *)
(***************************************************************************)
\* mutant: a record without id keyed by its username
UserId_ByUsername(user) ==
    IF user # None /\ Val(user).id # None THEN Val(Val(user).id)
    ELSE IF user # None /\ Val(user).username # None THEN Val(Val(user).username)
    ELSE DefaultUser

\* user["id"] if user and "id" in user else "default_user"
UserId(user) ==
    IF user # None /\ Val(user).id # None THEN Val(Val(user).id) ELSE DefaultUser

\* mutant: a missing role taken as "user"
HasUserRole_DefaultUser(user) == Val(user).role \in {None, Some("user")}

\* user.get("role", "admin") == "user"
HasUserRole(user) == Val(user).role = Some("user")

\* the call reaches rate_limited (lines 173-178)
Enforced(v, user) ==
    /\ user # None
    /\ HasUserRole(user)
    /\ ~is_exempt(v, user)
    /\ (~v.weekdays_only \/ is_weekday)

\* mutant: log_request called before the test of rate_limited's result
InletResult_LogsRejected(v, t, ur, user) ==
    IF user = None
    THEN [outcome |-> "AttributeError", user_requests |-> ur]
    ELSE IF ~Enforced(v, user)
    THEN [outcome |-> "returned", user_requests |-> ur]
    ELSE IF PruneRaises(v, t, GetReqs(ur, UserId(user)))
    THEN [outcome |-> "TypeError", user_requests |-> ur]
    ELSE LET pruned == prune_requests(v, t, ur, UserId(user)) IN
        [outcome |-> IF Limited(v, t, GetReqs(pruned, UserId(user)))
                     THEN "RateLimitExceeded" ELSE "returned",
         user_requests |-> log_request(t, pruned, UserId(user))]

\* the whole call: how it ends and the dict it leaves
InletResult(v, t, ur, user) ==
    IF user = None
    THEN [outcome |-> "AttributeError", user_requests |-> ur]
    ELSE IF ~Enforced(v, user)
    THEN [outcome |-> "returned", user_requests |-> ur]
    ELSE IF PruneRaises(v, t, GetReqs(ur, UserId(user)))
    THEN [outcome |-> "TypeError", user_requests |-> ur]
    ELSE LET pruned == prune_requests(v, t, ur, UserId(user)) IN
        IF Limited(v, t, GetReqs(pruned, UserId(user)))
        THEN [outcome |-> "RateLimitExceeded", user_requests |-> pruned]
        ELSE [outcome |-> "returned", user_requests |-> log_request(t, pruned, UserId(user))]

(***************************************************************************)
(* Actions: calls made one after another                                   *)
(***************************************************************************)
Threads == {"t1", "t2"}

IdleThread == [pc |-> "idle", user |-> None, list |-> <<>>]

Inlet(user) ==
    /\ user \in callers
    /\ LET r == InletResult(valves, now, user_requests, user) IN
        /\ user_requests' = r.user_requests
        /\ outcome' = r.outcome
    /\ caller' = user
    /\ UNCHANGED <<valves, now, localStart, callers, threads>>

\* time passes between calls: the clock moves to its next reading
Tick ==
    /\ \E t \in Instants :
        /\ t > now
        /\ \A other \in Instants : other > now => t <= other
        /\ now' = t
    /\ UNCHANGED <<valves, user_requests, localStart, callers, caller, outcome, threads>>

Next ==
    \/ \E user \in Users : Inlet(user)
    \/ Tick

\* the state after __init__ (line 85), before any call
InitState ==
    /\ user_requests = <<>>
    /\ now = 0
    /\ caller = None
    /\ outcome = "idle"
    /\ threads = [th \in Threads |-> IdleThread]

\* every combination of rules, with and without the weekday switch, around a
\* local midnight, for one identity
Init ==
    /\ InitState
    /\ \E rpm \in Thresholds, rph \in Thresholds, swl \in Thresholds,
          swm \in WindowMinutes, wd \in BOOLEAN :
        /\ valves = MakeValves(rpm, rph, swl, swm, wd)
        /\ localStart \in IF wd THEN LocalStarts ELSE {LateFriday}
    /\ callers = {Dan}

Spec == Init /\ [][Next]_vars

\* the callers of one deployment: a limited user together with the records
\* that lack fields or the role "user", or together with the exempt records
CallerGroups ==
    { {Dan, Eve, Ned, Root, NoRole, NoUser},
      {Dan, Al, Bea, Uma, Ida} }

\* every identity, on a weekday, for no rule, the per-minute rule or the
\* sliding-window rule
InitIdentity ==
    /\ InitState
    /\ \E rpm \in {None, Some(MaxLimit)}, sw \in {None, Some(MaxLimit)} :
        /\ rpm = None \/ sw = None
        /\ valves = MakeValves(rpm, None, sw, IF sw = None THEN None ELSE Some(1), TRUE)
    /\ localStart = Wednesday
    /\ callers \in CallerGroups

SpecIdentity == InitIdentity /\ [][Next]_vars

(***************************************************************************)
(* Actions: calls on parallel threads.  The code takes no lock, so the     *)
(* steps of two calls interleave: the tests of inlet (lines 173-177), the  *)
(* list comprehension of prune_requests (lines 99-111), the assignment of  *)
(* its result (line 101), the counts of rate_limited (lines 125-142) and   *)
(* log_request (lines 116-119).                                            *)
(***************************************************************************)
Ends(th, how) ==
    /\ threads' = [threads EXCEPT ![th] = IdleThread]
    /\ caller' = threads[th].user
    /\ outcome' = how

\* inlet up to the call of rate_limited
Begin(th, user) ==
    /\ user \in callers
    /\ threads[th].pc = "idle"
    /\ IF user = None
       THEN /\ outcome' = "AttributeError"
            /\ caller' = user
            /\ UNCHANGED threads
       ELSE IF ~Enforced(valves, user)
       THEN /\ outcome' = "returned"
            /\ caller' = user
            /\ UNCHANGED threads
       ELSE /\ threads' = [threads EXCEPT ![th] = [pc |-> "prune", user |-> user, list |-> <<>>]]
            /\ UNCHANGED <<caller, outcome>>
    /\ UNCHANGED <<valves, user_requests, now, localStart, callers>>

\* prune_requests: the new list is built from the list read now
PruneRead(th) ==
    /\ threads[th].pc = "prune"
    /\ LET user_id == UserId(threads[th].user) IN
        IF user_id \notin DOMAIN user_requests
        THEN /\ threads' = [threads EXCEPT ![th].pc = "count"]
             /\ UNCHANGED <<caller, outcome>>
        ELSE IF PruneRaises(valves, now, user_requests[user_id])
        THEN Ends(th, "TypeError")
        ELSE /\ threads' = [threads EXCEPT ![th].pc = "store",
                                           ![th].list = PrunedList(valves, now, user_requests[user_id])]
             /\ UNCHANGED <<caller, outcome>>
    /\ UNCHANGED <<valves, user_requests, now, localStart, callers>>

\* prune_requests: the new list replaces the dict entry
PruneStore(th) ==
    /\ threads[th].pc = "store"
    /\ user_requests' = [user_requests EXCEPT ![UserId(threads[th].user)] = threads[th].list]
    /\ threads' = [threads EXCEPT ![th].pc = "count", ![th].list = <<>>]
    /\ UNCHANGED <<valves, now, localStart, callers, caller, outcome>>

\* rate_limited after the prune, and the raise of inlet
Count(th) ==
    /\ threads[th].pc = "count"
    /\ IF Limited(valves, now, GetReqs(user_requests, UserId(threads[th].user)))
       THEN Ends(th, "RateLimitExceeded")
       ELSE /\ threads' = [threads EXCEPT ![th].pc = "log"]
            /\ UNCHANGED <<caller, outcome>>
    /\ UNCHANGED <<valves, user_requests, now, localStart, callers>>

\* log_request, and the return of inlet
Log(th) ==
    /\ threads[th].pc = "log"
    /\ user_requests' = log_request(now, user_requests, UserId(threads[th].user))
    /\ Ends(th, "returned")
    /\ UNCHANGED <<valves, now, localStart, callers>>

NextThreads ==
    \/ \E th \in Threads, user \in Users : Begin(th, user)
    \/ \E th \in Threads : PruneRead(th)
    \/ \E th \in Threads : PruneStore(th)
    \/ \E th \in Threads : Count(th)
    \/ \E th \in Threads : Log(th)
    \/ Tick

\* the per-minute and the sliding-window rule, every day, for one identity
InitThreads ==
    /\ InitState
    /\ \E rpm \in {Some(1), Some(MaxLimit)}, sw \in {None, Some(MaxLimit)} :
        valves = MakeValves(rpm, None, sw, IF sw = None THEN None ELSE Some(1), FALSE)
    /\ localStart = Wednesday
    /\ callers = {Dan}

SpecThreads == InitThreads /\ [][NextThreads]_vars

(***************************************************************************)
(* Properties                                                              *)
(***************************************************************************)
\* the recorded history of a bucket
History(user_id) == GetReqs(user_requests, user_id)

\* the identity is subject to limiting by role and exemption lists
UserRoleNotExempt(user) == user # None /\ HasUserRole(user) /\ ~is_exempt(valves, user)

\* requests_per_minute is the only rule configured
OnlyPerMinute ==
    /\ valves.requests_per_minute # None
    /\ valves.requests_per_hour = None
    /\ valves.sliding_window_limit = None

\* the call appended the current instant to the caller's history
Logged(user) ==
    /\ UserId(user) \in DOMAIN user_requests'
    /\ LET after == user_requests'[UserId(user)] IN
        /\ after # <<>>
        /\ after[Len(after)] = now
        /\ SubSeq(after, 1, Len(after) - 1) =
              SelectSeq(History(UserId(user)), LAMBDA req : req \in {after[i] : i \in 1..Len(after)})

\* C1 as stated: with requests_per_minute = N the only rule, a call of a non-exempt
\* identity with role "user" is admitted while fewer than N of its recorded requests
\* lie in the trailing 60 s, and is rejected once N do.
C1_Original ==
    [][\A user \in Users :
        (Inlet(user) /\ OnlyPerMinute /\ UserRoleNotExempt(user)) =>
            LET n == CountWithin(now, History(UserId(user)), 60) IN
            IF n < Val(valves.requests_per_minute)
            THEN outcome' = "returned"
            ELSE outcome' = "RateLimitExceeded"]_vars

\* C1 amended: the same for calls made on a day on which the limiter is enforced
\* (weekdays_only false, or Monday to Friday); an admitted call is recorded.
C1_PerMinuteLimit ==
    [][\A user \in Users :
        (Inlet(user) /\ OnlyPerMinute /\ UserRoleNotExempt(user)
            /\ (~valves.weekdays_only \/ Weekday(now) \in 0..4)) =>
            LET n == CountWithin(now, History(UserId(user)), 60) IN
            IF n < Val(valves.requests_per_minute)
            THEN outcome' = "returned" /\ Logged(user)
            ELSE outcome' = "RateLimitExceeded"]_vars

\* the (N+1)th request inside a minute has just been rejected, N > 1
C1_Witness ==
    /\ OnlyPerMinute
    /\ valves.requests_per_minute = Some(MaxLimit)
    /\ caller # None
    /\ UserRoleNotExempt(caller)
    /\ outcome = "RateLimitExceeded"
    /\ CountWithin(now, History(UserId(caller)), 60) = MaxLimit
    /\ History(UserId(caller))[1] < now

\* the longest window of the rules that are set, 0 when none is
LargestWindow ==
    LET ws == (IF valves.requests_per_minute # None THEN {60} ELSE {})
              \cup (IF valves.requests_per_hour # None THEN {3600} ELSE {})
              \cup (IF valves.sliding_window_limit # None /\ valves.sliding_window_minutes # None
                    THEN {Val(valves.sliding_window_minutes) * 60} ELSE {})
    IN IF ws = {} THEN 0 ELSE CHOOSE w \in ws : \A x \in ws : x <= w

\* C2 as stated: a rejected call leaves the length of the caller's history unchanged.
C2_Original ==
    [][\A user \in Users :
        (Inlet(user) /\ user # None /\ outcome' = "RateLimitExceeded") =>
            Len(GetReqs(user_requests', UserId(user))) = Len(History(UserId(user)))]_vars

\* C2 amended: a rejected call never appends and never lengthens the caller's
\* history: it leaves the history it found minus the entries older than every
\* active window, so the length is unchanged when no entry had expired.
C2_RejectionNeverAppends ==
    [][\A user \in Users :
        (Inlet(user) /\ user # None /\ outcome' = "RateLimitExceeded") =>
            /\ GetReqs(user_requests', UserId(user)) =
                  SelectSeq(History(UserId(user)), LAMBDA req : now - req < LargestWindow)
            /\ Len(GetReqs(user_requests', UserId(user))) <= Len(History(UserId(user)))
            /\ \A k \in DOMAIN user_requests : k # UserId(user) => user_requests'[k] = user_requests[k]]_vars

\* a call has just been rejected with the caller's history at a threshold
C2_Witness ==
    /\ caller # None
    /\ outcome = "RateLimitExceeded"
    /\ History(UserId(caller)) # <<>>
    /\ now > 0

\* the sliding-window rule is active: limit and minutes are both set
SlidingActive == valves.sliding_window_limit # None /\ valves.sliding_window_minutes # None

\* C3: with the sliding-window rule active, a call that reaches rate_limited is not
\* rejected while neither the per-minute nor the per-hour count has reached its
\* threshold and fewer than sliding_window_limit requests of the caller lie in the
\* trailing sliding_window_minutes * 60 seconds.
C3_SlidingCountsItsWindow ==
    [][\A user \in Users :
        (/\ Inlet(user)
         /\ Enforced(valves, user)
         /\ SlidingActive
         /\ ~MinuteLimited(valves, now, History(UserId(user)))
         /\ ~HourLimited(valves, now, History(UserId(user)))
         /\ CountWithin(now, History(UserId(user)), Val(valves.sliding_window_minutes) * 60)
               < Val(valves.sliding_window_limit))
        => outcome' # "RateLimitExceeded"]_vars

\* the limits hold for one bucket at the current instant: no more recorded
\* requests inside the trailing window of a rule than the rule's limit
WithinLimits(ur, user_id) ==
    /\ valves.requests_per_minute # None =>
          CountWithin(now, GetReqs(ur, user_id), 60) <= Val(valves.requests_per_minute)
    /\ valves.requests_per_hour # None =>
          CountWithin(now, GetReqs(ur, user_id), 3600) <= Val(valves.requests_per_hour)
    /\ SlidingActive =>
          CountWithin(now, GetReqs(ur, user_id), Val(valves.sliding_window_minutes) * 60)
              <= Val(valves.sliding_window_limit)

\* C4: under any interleaving of calls of one identity, the number of its admitted
\* requests inside an active rule's window never exceeds the rule's limit.
C4_AtomicAdmit == \A k \in DOMAIN user_requests : WithinLimits(user_requests, k)

\* some active rule's count of the caller's requests has reached its threshold
SomeRuleReached(user_id) ==
    \/ /\ valves.requests_per_minute # None
       /\ CountWithin(now, History(user_id), 60) >= Val(valves.requests_per_minute)
    \/ /\ valves.requests_per_hour # None
       /\ CountWithin(now, History(user_id), 3600) >= Val(valves.requests_per_hour)
    \/ /\ SlidingActive
       /\ CountWithin(now, History(user_id), Val(valves.sliding_window_minutes) * 60)
             >= Val(valves.sliding_window_limit)

\* C5: for calls made one after another, a call that reaches rate_limited is
\* rejected whenever some active rule's count has reached its threshold, whatever
\* the other counts are, and after every step no bucket holds more recorded
\* requests inside a rule's trailing window than the rule's limit.
C5_AnyRuleRejects ==
    [][/\ \A user \in Users :
            (Inlet(user) /\ Enforced(valves, user) /\ SomeRuleReached(UserId(user)))
                => outcome' = "RateLimitExceeded"
       /\ \A k \in DOMAIN user_requests' : WithinLimits(user_requests', k)]_vars

\* the same with sliding_window_minutes set whenever sliding_window_limit is
\* (prune_requests cannot raise)
C5_WhenMinutesSet ==
    [][(valves.sliding_window_limit # None => valves.sliding_window_minutes # None) =>
       /\ \A user \in Users :
            (Inlet(user) /\ Enforced(valves, user) /\ SomeRuleReached(UserId(user)))
                => outcome' = "RateLimitExceeded"
       /\ \A k \in DOMAIN user_requests' : WithinLimits(user_requests', k)]_vars

\* the identities the exemption lists of the environment name: by username
\* (" AL"), by email ("B@x ") and by id (" u9")
ExemptIdentities == {Al, Bea, Uma}

\* C6: a call of an exempt identity is always admitted and changes no history:
\* no bucket is created, pruned or appended to.
C6_ExemptBypass ==
    [][\A user \in ExemptIdentities :
        Inlet(user) => outcome' = "returned" /\ user_requests' = user_requests]_vars

\* an exempt identity was admitted while a bucket is at its threshold and holds
\* an expired entry, and no bucket exists for the exempt identity
C6_Witness ==
    /\ caller \in ExemptIdentities
    /\ outcome = "returned"
    /\ UserId(caller) \notin DOMAIN user_requests
    /\ \E k \in DOMAIN user_requests :
        /\ Limited(valves, now, user_requests[k])
        /\ PrunedList(valves, now, user_requests[k]) # user_requests[k]

\* C7: with weekdays_only true, a call made on a Saturday or Sunday is admitted
\* and changes no history; with weekdays_only false, on every day a call of a
\* non-exempt identity with role "user" is not admitted once an active rule's
\* count has reached its threshold, and is recorded when it is admitted.
C7_WeekdaysOnly ==
    [][\A user \in Users \ {NoUser} :
        Inlet(user) =>
            /\ (valves.weekdays_only /\ Weekday(now) \in {5, 6}) =>
                  outcome' = "returned" /\ user_requests' = user_requests
            /\ (~valves.weekdays_only /\ UserRoleNotExempt(user)) =>
                  /\ SomeRuleReached(UserId(user)) => outcome' # "returned"
                  /\ outcome' = "returned" => Logged(user)]_vars

\* a call was admitted on a Saturday although the caller had reached a threshold
\* on the Friday, and its history still holds the Friday's entries
C7_Witness ==
    /\ valves.weekdays_only
    /\ Weekday(now) = 5
    /\ caller # None
    /\ UserRoleNotExempt(caller)
    /\ outcome = "returned"
    /\ SomeRuleReached(UserId(caller))
    /\ \A i \in 1..Len(History(UserId(caller))) : Weekday(History(UserId(caller))[i]) = 4

\* exactly one of sliding_window_limit and sliding_window_minutes is set
HalfSliding == (valves.sliding_window_limit = None) # (valves.sliding_window_minutes = None)

\* C8: with one of the two sliding-window parameters missing, a call ends admitted
\* or rejected, never in another error, and it is rejected only when the
\* per-minute or the per-hour count has reached its threshold.
C8_HalfSlidingInactive ==
    [][\A user \in Users \ {NoUser} :
        (Inlet(user) /\ HalfSliding) =>
            /\ outcome' \in {"returned", "RateLimitExceeded"}
            /\ outcome' = "RateLimitExceeded" =>
                  \/ MinuteLimited(valves, now, History(UserId(user)))
                  \/ HourLimited(valves, now, History(UserId(user)))]_vars

\* sliding_window_limit and sliding_window_minutes are the only rule configured
OnlySliding ==
    /\ valves.requests_per_minute = None
    /\ valves.requests_per_hour = None
    /\ SlidingActive

\* C9: with only the sliding-window rule active (L over W minutes), a call that
\* reaches rate_limited is admitted and recorded while fewer than L of the
\* caller's requests lie in the trailing W * 60 seconds, and is rejected once L
\* do; requests that are W * 60 seconds old no longer count.
C9_SlidingWindow ==
    [][\A user \in Users :
        (Inlet(user) /\ Enforced(valves, user) /\ OnlySliding) =>
            LET n == CountWithin(now, History(UserId(user)),
                                 Val(valves.sliding_window_minutes) * 60) IN
            IF n < Val(valves.sliding_window_limit)
            THEN outcome' = "returned" /\ Logged(user)
            ELSE outcome' = "RateLimitExceeded"]_vars

\* a call was rejected inside the window with L entries recorded, some time
\* after the first of them
C9_Witness ==
    /\ OnlySliding
    /\ valves.sliding_window_limit = Some(MaxLimit)
    /\ caller # None
    /\ outcome = "RateLimitExceeded"
    /\ Len(History(UserId(caller))) = MaxLimit
    /\ now > History(UserId(caller))[1]

\* C10: a rule whose threshold is absent rejects nothing: a call is rejected only
\* when a rule whose threshold is set has reached it, whatever the counts of the
\* trailing 60 s (per-minute absent) or 3600 s (per-hour absent) are, and with
\* every threshold absent every call with an identity record is admitted.
C10_AbsentRuleInert ==
    [][\A user \in Users \ {NoUser} :
        Inlet(user) =>
            /\ outcome' = "RateLimitExceeded" =>
                \/ /\ valves.requests_per_minute # None
                   /\ CountWithin(now, History(UserId(user)), 60) >= Val(valves.requests_per_minute)
                \/ /\ valves.requests_per_hour # None
                   /\ CountWithin(now, History(UserId(user)), 3600) >= Val(valves.requests_per_hour)
                \/ /\ valves.sliding_window_limit # None
                   /\ Len(GetReqs(user_requests', UserId(user))) >= Val(valves.sliding_window_limit)
            /\ (/\ valves.requests_per_minute = None
                /\ valves.requests_per_hour = None
                /\ valves.sliding_window_limit = None) => outcome' = "returned"]_vars

\* with the per-minute rule absent a call was admitted as the last of several
\* requests of the caller inside one minute, the per-hour rule now being full
C10_Witness ==
    /\ valves.requests_per_minute = None
    /\ valves.requests_per_hour = Some(MaxLimit)
    /\ caller # None
    /\ UserRoleNotExempt(caller)
    /\ outcome = "returned"
    /\ CountWithin(now, History(UserId(caller)), 60) = MaxLimit
    /\ now > 0

\* the list rate_limited counted in the call that just ended: the caller's
\* history after the call, without the entry log_request appended
Counted(user) ==
    LET after == GetReqs(user_requests', UserId(user)) IN
    IF outcome' = "returned" THEN SubSeq(after, 1, Len(after) - 1) ELSE after

\* C11: in every call that reaches the counts of rate_limited, every timestamp
\* of the counted history is younger than the largest window among the active
\* rules: older entries have been removed before the counts are taken.
C11_PrunedBeforeCounting ==
    [][\A user \in Users :
        (Inlet(user) /\ Enforced(valves, user) /\ outcome' \in {"returned", "RateLimitExceeded"}) =>
            /\ outcome' = "returned" => Logged(user)
            /\ \A i \in 1..Len(Counted(user)) : now - Counted(user)[i] < LargestWindow]_vars

\* a call was rejected more than an hour after clock reading 0 with the
\* per-minute and the per-hour rule active: the history holds an entry kept for
\* the per-hour rule alone, all entries are younger than 3600 s
C11_Witness ==
    /\ valves.requests_per_minute # None
    /\ valves.requests_per_hour # None
    /\ caller # None
    /\ outcome = "RateLimitExceeded"
    /\ now >= 3600
    /\ History(UserId(caller)) # <<>>
    /\ now - History(UserId(caller))[1] >= 60
    /\ History(UserId(caller))[1] > 0

\* the step is the call of this caller
Called(user) == caller' = user /\ Inlet(user)

\* C12: a call whose identity record has a role other than "user", or no role,
\* is admitted and changes no history, whatever the bucket of its id holds; only
\* calls with role "user" are rejected or recorded.
C12_OnlyUserRole ==
    [][\A user \in Users \ {NoUser} :
        Called(user) =>
            /\ Val(user).role # Some("user") =>
                  outcome' = "returned" /\ user_requests' = user_requests
            /\ (outcome' # "returned" \/ user_requests' # user_requests) =>
                  Val(user).role = Some("user")]_vars

\* a call without role "user" was admitted while the bucket of its id is at a
\* threshold and was left as it is
C12_Witness ==
    /\ caller \in {Root, NoRole}
    /\ outcome = "returned"
    /\ UserId(caller) \in DOMAIN user_requests
    /\ Len(user_requests[UserId(caller)]) = MaxLimit
    /\ \/ /\ valves.requests_per_minute # None
          /\ CountWithin(now, user_requests[UserId(caller)], 60) >= Val(valves.requests_per_minute)
       \/ /\ valves.sliding_window_limit # None
          /\ Len(user_requests[UserId(caller)]) >= Val(valves.sliding_window_limit)


\* C13: every call of a caller with role "user" and no id is counted against the
\* history stored under "default_user": it is rejected exactly when that history
\* has reached a threshold, whoever made the recorded calls, and when admitted
\* it appends the current instant to that history and creates no other key.
C13_SharedDefaultBucket ==
    [][\A user \in Users \ {NoUser} :
        (Called(user) /\ Val(user).id = None /\ Val(user).role = Some("user")) =>
            /\ outcome' = (IF SomeRuleReached(DefaultUser) THEN "RateLimitExceeded" ELSE "returned")
            /\ DOMAIN user_requests' = DOMAIN user_requests \cup {DefaultUser}
            /\ outcome' = "returned" =>
                  LET after == user_requests'[DefaultUser] IN
                      /\ after # <<>>
                      /\ after[Len(after)] = now
                      /\ Len(after) <= Len(History(DefaultUser)) + 1]_vars

\* a caller without id is rejected on the MaxLimit requests recorded under
\* "default_user"
C13_Witness ==
    /\ caller = Ned
    /\ outcome = "RateLimitExceeded"
    /\ Len(History(DefaultUser)) = MaxLimit
    /\ DOMAIN user_requests = {DefaultUser}


\* C14: whatever identity comes with a call (no record at all, or a record
\* without username, email, id or role), the call ends admitted or with the
\* rate-limit error, never with another error, and a record with none of
\* username, email and id matches no exemption list.
C14_MalformedIdentityNeverFails ==
    [][\A user \in Users :
        Called(user) =>
            /\ outcome' \in {"returned", "RateLimitExceeded"}
            /\ (user # None /\ Val(user).username = None /\ Val(user).email = None
                    /\ Val(user).id = None /\ Val(user).role = Some("user")) =>
                  outcome' = (IF SomeRuleReached(DefaultUser) THEN "RateLimitExceeded" ELSE "returned")]_vars

\* C14 for calls that carry a record: only a call without any record fails
C14_RecordsNeverFail ==
    [][\A user \in Users :
        Called(user) => (outcome' \in {"returned", "RateLimitExceeded"} <=> user # None)]_vars


\* the username or the email of the record, trimmed and lower-cased, is listed
NameOrEmailListed(user) ==
    /\ user # None
    /\ \/ /\ Val(user).username # None
          /\ InList(Lower(Strip(Val(Val(user).username))), valves.exempt_usernames)
       \/ /\ Val(user).email # None
          /\ InList(Lower(Strip(Val(Val(user).email))), valves.exempt_emails)

\* the id of the record, as it is, is listed
IdListed(user) ==
    user # None /\ Val(user).id # None /\ InList(Val(Val(user).id), valves.exempt_user_ids)

\* the id of the record, trimmed, is listed
TrimmedIdListed(user) ==
    user # None /\ Val(user).id # None /\ InList(Strip(Val(Val(user).id)), valves.exempt_user_ids)

\* the call was let through without being counted
Bypassed == outcome' = "returned" /\ user_requests' = user_requests

\* some threshold is configured
SomeRuleSet ==
    \/ valves.requests_per_minute # None
    \/ valves.requests_per_hour # None
    \/ valves.sliding_window_limit # None

RECURSIVE IsSubseq(_, _)
IsSubseq(a, b) ==
    IF a = <<>> THEN TRUE
    ELSE IF b = <<>> THEN FALSE
    ELSE IF a[1] = b[1] THEN IsSubseq(Tail(a), Tail(b))
    ELSE IsSubseq(a, Tail(b))

NonDecreasing(reqs) == \A i, j \in 1..Len(reqs) : i <= j => reqs[i] <= reqs[j]

\* the step is an admitted call that reached rate_limited for the key user_id
AdmittedFor(user_id) ==
    \E user \in Users \ {NoUser} :
        /\ Inlet(user)
        /\ Val(user).role = Some("user")
        /\ ~NameOrEmailListed(user) /\ ~TrimmedIdListed(user)
        /\ ~valves.weekdays_only \/ Weekday(now) \in 0..4
        /\ outcome' = "returned"
        /\ user_id = (IF Val(user).id = None THEN DefaultUser ELSE Val(Val(user).id))

\* C16: after every step each history is a non-decreasing sequence; a step
\* changes a history only by deleting entries (the kept ones stay in order and
\* unaltered) and, when the step is an admitted call of a non-exempt identity
\* with role "user" under enforcement, by appending exactly the current instant
\* at the end.
C16_HistoryShape ==
    [][\A user_id \in DOMAIN user_requests \cup DOMAIN user_requests' :
        /\ user_id \in DOMAIN user_requests'
        /\ LET after == user_requests'[user_id] IN
              /\ NonDecreasing(after)
              /\ IF AdmittedFor(user_id)
                 THEN /\ after # <<>>
                      /\ after[Len(after)] = now
                      /\ IsSubseq(SubSeq(after, 1, Len(after) - 1), History(user_id))
                 ELSE IsSubseq(after, History(user_id))]_vars

\* an admitted call appended the current instant behind an entry of the first
\* minutes, more than an hour after clock reading 0
C16_Witness ==
    /\ caller # None
    /\ outcome = "returned"
    /\ now >= 3600
    /\ Len(History(UserId(caller))) = 2
    /\ History(UserId(caller))[1] \in 1..3599
    /\ History(UserId(caller))[2] = now


\* C17: at every reachable instant and for every stored history on which
\* prune_requests does not raise, pruning the pruned history again at the same
\* instant gives the same stored histories, hence the same count for every
\* window.
C17_PruneIdempotent ==
    \A user_id \in DOMAIN user_requests :
        ~PruneRaises(valves, now, user_requests[user_id]) =>
            LET once == prune_requests(valves, now, user_requests, user_id)
                twice == prune_requests(valves, now, once, user_id)
            IN /\ ~PruneRaises(valves, now, once[user_id])
               /\ twice = once
               /\ \A window \in {60, 3600, 120} :
                     CountWithin(now, twice[user_id], window) = CountWithin(now, once[user_id], window)

\* a history from which pruning at the current instant deletes some entries
\* and keeps others
C17_Witness ==
    \E user_id \in DOMAIN user_requests :
        /\ ~PruneRaises(valves, now, user_requests[user_id])
        /\ PrunedList(valves, now, user_requests[user_id]) # user_requests[user_id]
        /\ PrunedList(valves, now, user_requests[user_id]) # <<>>


\* the dict with the entry of one key only
OnlyKey(ur, user_id) == [k \in DOMAIN ur \cap {user_id} |-> ur[k]]

\* C18: a call with key A leaves the history of every other key as it is and
\* creates no other key, and its outcome is the outcome the same call has at
\* the same instant under the same configuration when A's history is the only
\* one stored.
C18_Isolation ==
    [][\A user \in Users :
        Called(user) =>
            /\ DOMAIN user_requests' \subseteq DOMAIN user_requests \cup {UserId(user)}
            /\ \A other \in DOMAIN user_requests \ {UserId(user)} :
                  /\ other \in DOMAIN user_requests'
                  /\ user_requests'[other] = user_requests[other]
            /\ LET alone == InletResult(valves, now, OnlyKey(user_requests, UserId(user)), user) IN
                  /\ outcome' = alone.outcome
                  /\ OnlyKey(user_requests', UserId(user)) = alone.user_requests]_vars

\* a call under one key was admitted and recorded while another key holds
\* entries that pruning at this instant would delete
C18_Witness ==
    /\ caller = Dan
    /\ outcome = "returned"
    /\ History(UserId(Dan)) # <<>>
    /\ History(UserId(Dan))[Len(History(UserId(Dan)))] = now
    /\ DefaultUser \in DOMAIN user_requests
    /\ PrunedList(valves, now, user_requests[DefaultUser]) # user_requests[DefaultUser]


\* every recorded request of the key is at least as old as the largest window
\* of the configured rules
AllExpired(user_id) ==
    /\ LargestWindow > 0
    /\ History(user_id) # <<>>
    /\ \A i \in 1..Len(History(user_id)) : now - History(user_id)[i] >= LargestWindow

\* C19: a call that reaches rate_limited when all recorded requests of its
\* identity are older than the largest active window is admitted, whatever
\* calls were rejected before.
C19_LockoutEnds ==
    [][\A user \in Users \ {NoUser} :
        (Inlet(user) /\ Enforced(valves, user) /\ AllExpired(UserId(user))) =>
            outcome' = "returned" /\ user_requests'[UserId(user)] = <<now>>]_vars

\* C19 where sliding_window_minutes is set whenever sliding_window_limit is
C19_WhenMinutesSet ==
    [][\A user \in Users \ {NoUser} :
        (Inlet(user) /\ Enforced(valves, user) /\ AllExpired(UserId(user))
            /\ (valves.sliding_window_limit # None => valves.sliding_window_minutes # None)) =>
            outcome' = "returned" /\ user_requests'[UserId(user)] = <<now>>]_vars


\* the number of entries of a list that equal req
Occurrences(reqs, req) == Cardinality({i \in 1..Len(reqs) : reqs[i] = req})

\* C20: under any interleaving of the calls of one identity, no step removes a
\* recorded request from its history while that request is still younger than
\* the largest active window.
C20_NoLostRecord ==
    [][\A user_id \in DOMAIN user_requests :
        \A i \in 1..Len(user_requests[user_id]) :
            LET req == user_requests[user_id][i] IN
                now' - req < LargestWindow =>
                    /\ user_id \in DOMAIN user_requests'
                    /\ Occurrences(user_requests'[user_id], req) >=
                          Occurrences(user_requests[user_id], req)]_vars

====
